---- MODULE Spec2Model ----
(***************************************************************************)
(* Model of the orchestration layer of LinguaSync                          *)
(* (src/services/geminiService.ts): the retry executor withRetry, the four *)
(* task operations and the Gemini -> DeepSeek fallback of                  *)
(* getWordDefinition; of the history store (services/historyDb); and of    *)
(* the handlers of the App component (src/App.tsx).                        *)
(*                                                                         *)
(* Strings are TLA+ strings; an optional value (a JavaScript value that    *)
(* may be undefined) is the empty tuple, or the one-element tuple holding  *)
(* it.  Times are in milliseconds.                                         *)
(***************************************************************************)
EXTENDS Integers, Sequences, FiniteSets, TLC

VARIABLES
    apiKey,       \* process.env.API_KEY is set
    deepSeekKey,  \* process.env.DEEPSEEK_API_KEY is set
    call,         \* the locals and the position of the task call in flight
    calls,        \* the task calls in flight at the same time, by call number
    probe,        \* a helper function under test: its argument and its result
    db,           \* the history store, the clock and what its operations returned
    app           \* the state of the App component and its handlers in flight

vars == <<apiKey, deepSeekKey, call, calls, probe, db, app>>

None == <<>>
Some(x) == <<x>>

-----------------------------------------------------------------------------
(* String primitives of JavaScript used by the source.                     *)

UpperChars == "ABCDEFGHIJKLMNOPQRSTUVWXYZ"
LowerChars == "abcdefghijklmnopqrstuvwxyz"

CharAt(s, k) == SubSeq(s, k, k)

LowerChar(c) ==
    IF \E k \in 1..26 : CharAt(UpperChars, k) = c
    THEN CharAt(LowerChars, CHOOSE k \in 1..26 : CharAt(UpperChars, k) = c)
    ELSE c

\* the characters of s from position k on, in lower case
RECURSIVE LowerFrom(_, _)
LowerFrom(s, k) ==
    IF k > Len(s) THEN ""
    ELSE LowerChar(CharAt(s, k)) \o LowerFrom(s, k + 1)

toLowerCase(s) == LowerFrom(s, 1)

includes(s, sub) ==
    \E k \in 0..(Len(s) - Len(sub)) : SubSeq(s, k + 1, k + Len(sub)) = sub

startsWith(s, prefix) ==
    Len(s) >= Len(prefix) /\ SubSeq(s, 1, Len(prefix)) = prefix

endsWith(s, suffix) ==
    Len(s) >= Len(suffix) /\ SubSeq(s, Len(s) - Len(suffix) + 1, Len(s)) = suffix

\* the characters the regular expression class \s matches, among those used
IsSpace(c) == c \in {" ", "\n", "\t", "\r"}

RECURSIVE TrimStart(_)
TrimStart(s) ==
    IF Len(s) > 0 /\ IsSpace(CharAt(s, 1)) THEN TrimStart(SubSeq(s, 2, Len(s))) ELSE s

RECURSIVE TrimEnd(_)
TrimEnd(s) ==
    IF Len(s) > 0 /\ IsSpace(CharAt(s, Len(s))) THEN TrimEnd(SubSeq(s, 1, Len(s) - 1)) ELSE s

-----------------------------------------------------------------------------
(* Errors.  An error value carries its optional message and, as its        *)
(* identity, the place that threw it and the number of the withRetry       *)
(* attempt during which it was thrown (0 outside withRetry).               *)

Err(message, thrownBy, attempt) ==
    [message |-> message, thrownBy |-> thrownBy, attempt |-> attempt]

MsgApiKeyMissing ==
    "API Key is missing. Please check your deployment environment variables."
MsgEmptyResponse == "Empty response from Gemini"
MsgNoAudio == "No audio data returned"
MsgScoringFailed == "Scoring failed"
MsgParseFailed == "Failed to parse AI response. Ensure content is valid JSON."
MsgDeepSeekKeyMissing == "DeepSeek API Key is missing"
MsgDeepSeekPrefix == "DeepSeek API Error: "
MsgTypeError == "Cannot read properties of undefined"

\* messages with which the Gemini SDK call can reject
GeminiErrorMessages ==
    { Some("got status: 500"),
      Some("503 Service Unavailable"),
      Some("Internal error encountered."),
      Some("INTERNAL ERROR"),
      Some("The model is overloaded"),
      Some("401 UNAUTHENTICATED"),
      Some("429 quota exceeded"),
      Some("port 5050 internal-error"),
      Some("fetch failed"),
      None }

\* HTTP status texts of a DeepSeek reply that is not ok
DeepSeekStatusTexts ==
    { "Internal Server Error", "Internal Error", "Unauthorized", "503", "" }

\* messages with which fetch (or response.json) can reject
DeepSeekFetchErrorMessages == { "Failed to fetch", "got 500 internal error" }

-----------------------------------------------------------------------------
(* withRetry, lines 38-40: the classification of a caught error.           *)

\* faulty variant: the comparison with "internal error" is case-sensitive
isInternalErrorCaseSensitive(error) ==
    /\ error.message # None
    /\ \/ includes(error.message[1], "internal error")
       \/ includes(error.message[1], "500")
       \/ includes(error.message[1], "503")

isInternalError(error) ==
    /\ error.message # None
    /\ \/ includes(toLowerCase(error.message[1]), "internal error")
       \/ includes(error.message[1], "500")
       \/ includes(error.message[1], "503")

-----------------------------------------------------------------------------
(* JSON documents a provider can return, and JSON.parse on them.  A time   *)
(* in seconds of the document is the same time in milliseconds in the      *)
(* parsed value.                                                           *)

DocDefinition ==
    "{\"word\":\"so\",\"definition\":\"thus\",\"example\":\"I think so\"}"
DocScore == "{\"score\":90,\"feedback\":\"clear\",\"accuracy\":\"good\"}"
DocTranscriptEmpty ==
    "{\"language\":\"en-US\",\"meta\":{\"wordCount\":0,\"estimatedLevel\":\"\",\"speed\":\"\"},\"segments\":[]}"
DocTranscriptTwo ==
    "{\"language\":\"en-US\",\"meta\":{\"wordCount\":5,\"estimatedLevel\":\"B1\",\"speed\":\"slow\"},\"segments\":[{\"start\":0,\"end\":0.5,\"text\":\"Uh\",\"translation\":\"e\",\"idiomatic\":\"Um\",\"idiomExplanation\":\"x\"},{\"start\":0.5,\"end\":3.0,\"text\":\"well I think so\",\"translation\":\"w\",\"idiomatic\":\"\",\"idiomExplanation\":\"\"}]}"

DocTranscriptThree ==
    "{\"language\":\"en-US\",\"meta\":{\"wordCount\":5,\"estimatedLevel\":\"B1\",\"speed\":\"slow\"},\"segments\":[{\"start\":0,\"end\":0.5,\"text\":\"Uh\",\"translation\":\"e\",\"idiomatic\":\"Um\",\"idiomExplanation\":\"x\"},{\"start\":0.5,\"end\":3.0,\"text\":\"well I think so\",\"translation\":\"w\",\"idiomatic\":\"\",\"idiomExplanation\":\"\"},{\"start\":3.0,\"end\":5.0,\"text\":\"and that is fine\",\"translation\":\"f\",\"idiomatic\":\"\",\"idiomExplanation\":\"\"}]}"
DocTranscriptDisordered ==
    "{\"language\":\"en-US\",\"meta\":{\"wordCount\":5,\"estimatedLevel\":\"B1\",\"speed\":\"slow\"},\"segments\":[{\"start\":3.0,\"end\":5.0,\"text\":\"and that is fine\",\"translation\":\"f\",\"idiomatic\":\"\",\"idiomExplanation\":\"\"},{\"start\":0.5,\"end\":3.0,\"text\":\"well I think so\",\"translation\":\"w\",\"idiomatic\":\"\",\"idiomExplanation\":\"\"}]}"
DocTranscriptNoMeta == "{\"language\":\"en-US\",\"segments\":[]}"
DocTranscriptNoSegments ==
    "{\"language\":\"en-US\",\"meta\":{\"wordCount\":5,\"estimatedLevel\":\"B1\",\"speed\":\"slow\"}}"

JsonDocs ==
    { DocDefinition, DocScore, DocTranscriptEmpty, DocTranscriptTwo, DocTranscriptThree,
      DocTranscriptDisordered, DocTranscriptNoMeta, DocTranscriptNoSegments }

Segment(start, end, text, translation, idiomatic, idiomExplanation) ==
    [start |-> start, end |-> end, text |-> text, translation |-> translation,
     idiomatic |-> idiomatic, idiomExplanation |-> idiomExplanation]

JsonValue(doc) ==
    CASE doc = DocDefinition ->
            [word |-> "so", definition |-> "thus", example |-> "I think so"]
      [] doc = DocScore ->
            [score |-> 90, feedback |-> "clear", accuracy |-> "good"]
      [] doc = DocTranscriptEmpty ->
            [language |-> "en-US",
             meta |-> [wordCount |-> 0, estimatedLevel |-> "", speed |-> ""],
             segments |-> <<>>]
      [] doc = DocTranscriptTwo ->
            [language |-> "en-US",
             meta |-> [wordCount |-> 5, estimatedLevel |-> "B1", speed |-> "slow"],
             segments |-> << Segment(0, 500, "Uh", "e", "Um", "x"),
                             Segment(500, 3000, "well I think so", "w", "", "") >>]
      [] doc = DocTranscriptThree ->
            [language |-> "en-US",
             meta |-> [wordCount |-> 5, estimatedLevel |-> "B1", speed |-> "slow"],
             segments |-> << Segment(0, 500, "Uh", "e", "Um", "x"),
                             Segment(500, 3000, "well I think so", "w", "", ""),
                             Segment(3000, 5000, "and that is fine", "f", "", "") >>]
      [] doc = DocTranscriptDisordered ->
            [language |-> "en-US",
             meta |-> [wordCount |-> 5, estimatedLevel |-> "B1", speed |-> "slow"],
             segments |-> << Segment(3000, 5000, "and that is fine", "f", "", ""),
                             Segment(500, 3000, "well I think so", "w", "", "") >>]
      [] doc = DocTranscriptNoMeta ->
            [language |-> "en-US", segments |-> <<>>]
      [] doc = DocTranscriptNoSegments ->
            [language |-> "en-US",
             meta |-> [wordCount |-> 5, estimatedLevel |-> "B1", speed |-> "slow"]]

\* JSON.parse: the parsed value, or None where JSON.parse throws
JsonParse(text) ==
    LET doc == TrimEnd(TrimStart(text))
    IN  IF doc \in JsonDocs THEN Some(JsonValue(doc)) ELSE None

-----------------------------------------------------------------------------
(* cleanAndParseJson.  The backtick of the fence marker is written ' in    *)
(* the model, since a TLA+ string cannot hold a backtick.                  *)

Fence == "'''"
FenceJson == "'''json"

\* text.replace(/^```json\s*/, '')
StripLeadingFence(text) ==
    IF startsWith(text, FenceJson)
    THEN TrimStart(SubSeq(text, Len(FenceJson) + 1, Len(text)))
    ELSE text

\* text.replace(/\s*```$/, '')
StripTrailingFence(text) ==
    IF endsWith(text, Fence)
    THEN TrimEnd(SubSeq(text, 1, Len(text) - Len(Fence)))
    ELSE text

\* text is optional: getWordDefinition passes response.text! unchecked, and
\* text.replace on undefined throws inside the try block
cleanAndParseJson(text, attempt) ==
    LET parsed == IF text = None THEN None
                  ELSE JsonParse(StripTrailingFence(StripLeadingFence(text[1])))
    IN  IF parsed # None
        THEN [ok |-> TRUE, value |-> parsed[1]]
        ELSE [ok |-> FALSE,
              error |-> Err(Some(MsgParseFailed), "cleanAndParseJson", attempt)]

-----------------------------------------------------------------------------
(* mergeShortSegments.                                                     *)

MIN_WORDS == 4
MinDurationMs == 2000

\* text.split(/\s+/).length: one more than the number of whitespace runs
SplitCount(text) ==
    1 + Cardinality({ k \in 1..Len(text) :
                        /\ IsSpace(CharAt(text, k))
                        /\ (k = 1 \/ ~IsSpace(CharAt(text, k - 1))) })

\* a || b on strings
OrElse(a, b) == IF a # "" THEN a ELSE b

RECURSIVE MergeLoop(_, _, _, _)
\* faulty variant: merged.unshift(current) in place of merged.push(current)
MergeLoopUnshifts(segments, i, current, merged) ==
    IF i > Len(segments) THEN <<current>> \o merged
    ELSE LET next == segments[i]
             currentWordCount == SplitCount(current.text)
             duration == current.end - current.start
         IN  IF currentWordCount < MIN_WORDS /\ duration < MinDurationMs
             THEN MergeLoop(segments, i + 1,
                      [current EXCEPT
                          !.end = next.end,
                          !.text = current.text \o " " \o next.text,
                          !.translation = current.translation \o " " \o next.translation,
                          !.idiomatic = OrElse(next.idiomatic, current.idiomatic),
                          !.idiomExplanation =
                              OrElse(next.idiomExplanation, current.idiomExplanation)],
                      merged)
             ELSE MergeLoop(segments, i + 1, next, <<current>> \o merged)

\* faulty variant: || in place of && in the condition of line 123
MergeLoopEither(segments, i, current, merged) ==
    IF i > Len(segments) THEN Append(merged, current)
    ELSE LET next == segments[i]
             currentWordCount == SplitCount(current.text)
             duration == current.end - current.start
         IN  IF currentWordCount < MIN_WORDS \/ duration < MinDurationMs
             THEN MergeLoop(segments, i + 1,
                      [current EXCEPT
                          !.end = next.end,
                          !.text = current.text \o " " \o next.text,
                          !.translation = current.translation \o " " \o next.translation,
                          !.idiomatic = OrElse(next.idiomatic, current.idiomatic),
                          !.idiomExplanation =
                              OrElse(next.idiomExplanation, current.idiomExplanation)],
                      merged)
             ELSE MergeLoop(segments, i + 1, next, Append(merged, current))

\* faulty variant: a joined segment is pushed at once, short or not
MergeLoopJoinsPairs(segments, i, current, merged) ==
    IF i > Len(segments) THEN Append(merged, current)
    ELSE LET next == segments[i]
             currentWordCount == SplitCount(current.text)
             duration == current.end - current.start
             joined == [current EXCEPT
                          !.end = next.end,
                          !.text = current.text \o " " \o next.text,
                          !.translation = current.translation \o " " \o next.translation,
                          !.idiomatic = OrElse(next.idiomatic, current.idiomatic),
                          !.idiomExplanation =
                              OrElse(next.idiomExplanation, current.idiomExplanation)]
         IN  IF currentWordCount < MIN_WORDS /\ duration < MinDurationMs
             THEN IF i + 1 > Len(segments) THEN Append(merged, joined)
                  ELSE MergeLoop(segments, i + 2, segments[i + 1], Append(merged, joined))
             ELSE MergeLoop(segments, i + 1, next, Append(merged, current))

\* faulty variant: the merged segment keeps the end of current
MergeLoopKeepsEnd(segments, i, current, merged) ==
    IF i > Len(segments) THEN Append(merged, current)
    ELSE LET next == segments[i]
             currentWordCount == SplitCount(current.text)
             duration == current.end - current.start
         IN  IF currentWordCount < MIN_WORDS /\ duration < MinDurationMs
             THEN MergeLoop(segments, i + 1,
                      [current EXCEPT
                          !.end = current.end,
                          !.text = current.text \o " " \o next.text,
                          !.translation = current.translation \o " " \o next.translation,
                          !.idiomatic = OrElse(next.idiomatic, current.idiomatic),
                          !.idiomExplanation =
                              OrElse(next.idiomExplanation, current.idiomExplanation)],
                      merged)
             ELSE MergeLoop(segments, i + 1, next, Append(merged, current))

MergeLoop(segments, i, current, merged) ==
    IF i > Len(segments) THEN Append(merged, current)
    ELSE LET next == segments[i]
             currentWordCount == SplitCount(current.text)
             duration == current.end - current.start
         IN  IF currentWordCount < MIN_WORDS /\ duration < MinDurationMs
             THEN MergeLoop(segments, i + 1,
                      [current EXCEPT
                          !.end = next.end,
                          !.text = current.text \o " " \o next.text,
                          !.translation = current.translation \o " " \o next.translation,
                          !.idiomatic = OrElse(next.idiomatic, current.idiomatic),
                          !.idiomExplanation =
                              OrElse(next.idiomExplanation, current.idiomExplanation)],
                      merged)
             ELSE MergeLoop(segments, i + 1, next, Append(merged, current))

\* faulty variant: without the early return of line 113 the loop is skipped
\* and segments[0], which is undefined, is pushed
mergeShortSegmentsUnguarded(segments) ==
    IF Len(segments) = 0 THEN <<None>> ELSE MergeLoop(segments, 2, segments[1], <<>>)

mergeShortSegments(segments) ==
    IF Len(segments) = 0 THEN <<>> ELSE MergeLoop(segments, 2, segments[1], <<>>)

-----------------------------------------------------------------------------
(* What the providers can answer.                                          *)

FencedDefinition == FenceJson \o "\n" \o DocDefinition \o "\n" \o Fence

\* response.text of a Gemini reply
GeminiTexts ==
    { None, Some(""), Some("not json"), Some(DocDefinition), Some(FencedDefinition),
      Some(DocScore), Some(DocTranscriptEmpty), Some(DocTranscriptTwo),
      Some(DocTranscriptThree), Some(DocTranscriptDisordered),
      Some(DocTranscriptNoMeta), Some(DocTranscriptNoSegments) }

\* response.candidates?.[0]?.content?.parts?.[0]?.inlineData?.data
GeminiAudios == { None, Some("UklGRg==") }

\* data.choices[0].message.content of a DeepSeek reply
DeepSeekContents ==
    { None, Some(DocDefinition), Some(FencedDefinition), Some("not json") }

-----------------------------------------------------------------------------
(* The task call in flight.                                                *)

Tasks == { "transcribeAudio", "generateSpeech", "scorePronunciation", "getWordDefinition" }

DefaultRetries == 3
DefaultDelayMs == 1000
BackoffMultiplier == 2

\* the calls the task made, in order: fn of withRetry, setTimeout, fetch
LogFn == [ev |-> "fn", ms |-> 0]
LogSetTimeout(ms) == [ev |-> "setTimeout", ms |-> ms]
LogFetch == [ev |-> "fetch", ms |-> 0]

IdleCall ==
    [task |-> "none", pc |-> "idle",
     retries |-> DefaultRetries, delayMs |-> DefaultDelayMs, i |-> 0,
     lastError |-> None,
     wrDone |-> "pending", \* the promise of withRetry: pending, fulfilled, rejected
     wrError |-> None,     \* the error the promise of withRetry rejected with
     log |-> <<>>,         \* calls made so far
     caught |-> <<>>,      \* the errors withRetry caught, in order
     reply |-> None,       \* the last reply generateContent resolved with
     result |-> None,     \* the value the task's promise resolved with
     error |-> None]      \* the error the task's promise rejected with

Returned(c, value) == [c EXCEPT !.pc = "returned", !.result = Some(value)]

Thrown(c, error) == [c EXCEPT !.pc = "thrown", !.error = Some(error)]

\* faulty variant: the inner catch rethrows the error of the primary
DeepSeekCatchThrowsPrimary(c, deepSeekError) == Thrown(c, c.wrError[1])

\* the inner catch of getWordDefinition, lines 397-400
DeepSeekCatch(c, deepSeekError) == Thrown(c, deepSeekError)

\* callDeepSeek up to its await of fetch
callDeepSeek(c, dsKey) ==
    IF ~dsKey
    THEN DeepSeekCatch(c, Err(Some(MsgDeepSeekKeyMissing), "callDeepSeek", 0))
    ELSE [c EXCEPT !.pc = "fetch", !.log = Append(@, LogFetch)]

\* faulty variant: the fallback is attempted without looking at the fallback key
DefineCatchAlwaysFallsBack(c, geminiError, dsKey) == callDeepSeek(c, dsKey)

\* faulty variant: the fallback is started but its promise is not returned, and the
\* error of the primary is thrown
DefineCatchFallsThrough(c, geminiError, dsKey) ==
    IF dsKey THEN Thrown([c EXCEPT !.log = Append(@, LogFetch)], geminiError)
    ELSE Thrown(c, geminiError)

\* the catch block of getWordDefinition, lines 388-404
DefineCatch(c, geminiError, dsKey) ==
    IF dsKey THEN callDeepSeek(c, dsKey) ELSE Thrown(c, geminiError)

\* faulty variant: every task catches the rejection and falls back
WithRetryThrowsFallsBack(c, error, dsKey) ==
    DefineCatch([c EXCEPT !.wrDone = "rejected", !.wrError = Some(error)], error, dsKey)

\* withRetry rejects (throw error, line 48): only getWordDefinition catches
\* the rejection
WithRetryThrows(c, error, dsKey) ==
    LET c1 == [c EXCEPT !.wrDone = "rejected", !.wrError = Some(error)]
    IN  IF c.task = "getWordDefinition" THEN DefineCatch(c1, error, dsKey)
        ELSE Thrown(c1, error)

\* withRetry resolves (return await fn(), line 34): every task returns the value
WithRetryReturns(c, value) == Returned([c EXCEPT !.wrDone = "fulfilled"], value)

\* faulty variant: every error is retried, whatever its message
CatchRetriesAll(c, error, dsKey) ==
    LET c1 == [c EXCEPT !.lastError = Some(error), !.caught = Append(@, error)]
    IN  IF c.i < c.retries - 1
        THEN [c1 EXCEPT !.pc = "backoff", !.log = Append(@, LogSetTimeout(c.delayMs))]
        ELSE WithRetryThrows(c1, error, dsKey)

\* faulty variant: the loop gives up one attempt early
CatchStopsEarly(c, error, dsKey) ==
    LET c1 == [c EXCEPT !.lastError = Some(error), !.caught = Append(@, error)]
    IN  IF isInternalError(error) /\ c.i < c.retries - 2
        THEN [c1 EXCEPT !.pc = "backoff", !.log = Append(@, LogSetTimeout(c.delayMs))]
        ELSE WithRetryThrows(c1, error, dsKey)

\* faulty variant: the first error caught is the one thrown at the end
CatchThrowsFirst(c, error, dsKey) ==
    LET c1 == [c EXCEPT !.lastError = Some(error), !.caught = Append(@, error)]
    IN  IF isInternalError(error) /\ c.i < c.retries - 1
        THEN [c1 EXCEPT !.pc = "backoff", !.log = Append(@, LogSetTimeout(c.delayMs))]
        ELSE WithRetryThrows(c1, c1.caught[1], dsKey)

\* faulty variant: a wait follows the final attempt too
CatchWaitsAfterLast(c, error, dsKey) ==
    LET c1 == [c EXCEPT !.lastError = Some(error), !.caught = Append(@, error)]
    IN  IF isInternalError(error) /\ c.i < c.retries
        THEN [c1 EXCEPT !.pc = "backoff", !.log = Append(@, LogSetTimeout(c.delayMs))]
        ELSE WithRetryThrows(c1, error, dsKey)

\* the catch block of withRetry, lines 35-49
Catch(c, error, dsKey) ==
    LET c1 == [c EXCEPT !.lastError = Some(error), !.caught = Append(@, error)]
    IN  IF isInternalError(error) /\ c.i < c.retries - 1
        THEN [c1 EXCEPT !.pc = "backoff", !.log = Append(@, LogSetTimeout(c.delayMs))]
        ELSE WithRetryThrows(c1, error, dsKey)

\* faulty variant: the delay is not multiplied
ContinueSameDelay(c) == [c EXCEPT !.i = @ + 1]

\* withRetry after its wait, lines 45-46 and the loop's i++
Continue(c) == [c EXCEPT !.delayMs = @ * BackoffMultiplier, !.i = @ + 1]

\* one iteration of the loop of withRetry up to the await in fn: getAi()
\* throws when the key is missing, else the request to Gemini is sent; after
\* the loop (line 51) lastError, still undefined, is thrown
InvokeFn(c, key, dsKey) ==
    IF c.i < c.retries
    THEN LET c1 == [c EXCEPT !.log = Append(@, LogFn)]
         IN  IF ~key
             THEN Catch(c1, Err(Some(MsgApiKeyMissing), "getAi", c.i + 1), dsKey)
             ELSE [c1 EXCEPT !.pc = "generateContent"]
    ELSE WithRetryThrows(c, Err(None, "withRetry", 0), dsKey)

\* faulty variant: the empty string taken for a payload
TruthyIfDefined(opt) == opt # None

\* if (response.text), if (audioData): neither undefined nor empty
Truthy(opt) == opt # None /\ opt[1] # ""

\* the body of the closure each task hands to withRetry, from the point
\* where generateContent has resolved
FnBody(task, text, audio, attempt) ==
    CASE task = "transcribeAudio" ->
            IF Truthy(text)
            THEN LET p == cleanAndParseJson(text, attempt)
                 IN  IF ~p.ok THEN p
                     ELSE IF "segments" \notin DOMAIN p.value
                     THEN [ok |-> FALSE,
                           error |-> Err(Some(MsgTypeError), "mergeShortSegments", attempt)]
                     ELSE [ok |-> TRUE,
                           value |-> [p.value EXCEPT !.segments = mergeShortSegments(@)]]
            ELSE [ok |-> FALSE,
                  error |-> Err(Some(MsgEmptyResponse), "transcribeAudio", attempt)]
      [] task = "generateSpeech" ->
            IF Truthy(audio)
            THEN [ok |-> TRUE, value |-> audio[1]]
            ELSE [ok |-> FALSE,
                  error |-> Err(Some(MsgNoAudio), "generateSpeech", attempt)]
      [] task = "scorePronunciation" ->
            IF Truthy(text)
            THEN cleanAndParseJson(text, attempt)
            ELSE [ok |-> FALSE,
                  error |-> Err(Some(MsgScoringFailed), "scorePronunciation", attempt)]
      [] task = "getWordDefinition" ->
            cleanAndParseJson(text, attempt)

-----------------------------------------------------------------------------
(* Steps of a task call.  Each operator gives the states a call in state c *)
(* can be in after one step, as a function of the two keys; the actions    *)
(* below take these steps on the call in flight.                           *)

\* a task is called; transcribeAudio and scorePronunciation first await
\* fileToBase64, the other two enter withRetry at once
CallTo(c, task, key, dsKey) ==
    { IF task \in {"transcribeAudio", "scorePronunciation"}
      THEN [c EXCEPT !.task = task, !.pc = "fileToBase64"]
      ELSE InvokeFn([c EXCEPT !.task = task], key, dsKey) }

\* FileReader finishes reading the blob: withRetry starts
FileReadTo(c, key, dsKey) == { InvokeFn(c, key, dsKey) }

\* FileReader fails: reader.onerror rejects with the event, which has no message
FileReadFailsTo(c) == { Thrown(c, Err(None, "fileToBase64", 0)) }

\* generateContent rejects
GeminiRejectsWith(c, dsKey, messages) ==
    { Catch(c, Err(message, "generateContent", c.i + 1), dsKey) :
        message \in messages }

GeminiRejectsTo(c, dsKey) == GeminiRejectsWith(c, dsKey, GeminiErrorMessages)

\* generateContent resolves and the rest of fn runs
GeminiResolvesWith(c, dsKey, replies) ==
    { LET r == FnBody(c.task, ta[1], ta[2], c.i + 1)
          c1 == [c EXCEPT !.reply = Some([text |-> ta[1], audio |-> ta[2]])]
      IN  IF r.ok THEN WithRetryReturns(c1, r.value) ELSE Catch(c1, r.error, dsKey) :
        ta \in replies }

GeminiResolvesTo(c, dsKey) == GeminiResolvesWith(c, dsKey, GeminiTexts \X GeminiAudios)

\* the timer of the backoff fires: delayMs *= 2; continue with the next attempt
BackoffElapsesTo(c, key, dsKey) == { InvokeFn(Continue(c), key, dsKey) }

\* fetch (or response.json()) rejects
DeepSeekRejectsTo(c) ==
    { DeepSeekCatch(c, Err(Some(message), "fetch", 0)) :
        message \in DeepSeekFetchErrorMessages }

\* the reply is not ok
DeepSeekNotOkTo(c) ==
    { DeepSeekCatch(c, Err(Some(MsgDeepSeekPrefix \o statusText), "callDeepSeek", 0)) :
        statusText \in DeepSeekStatusTexts }

\* the reply is ok: data.choices[0].message.content is read (a TypeError when
\* the reply has no choice) and handed to cleanAndParseJson
DeepSeekOkTo(c) ==
    { LET r == cleanAndParseJson(hc[2], 0)
      IN  IF ~hc[1]
          THEN DeepSeekCatch(c, Err(Some(MsgTypeError), "callDeepSeek", 0))
          ELSE IF r.ok THEN Returned(c, r.value)
          ELSE DeepSeekCatch(c, r.error) :
        hc \in BOOLEAN \X DeepSeekContents }

-----------------------------------------------------------------------------
(* Actions.                                                                *)

\* the parts of the state that one task call on its own does not use
NoCalls == <<>>
NoProbe == [fn |-> "none", arg |-> None, out |-> None]
NoDb == [fn |-> "none"]
NoApp == [fn |-> "none"]

Init ==
    /\ apiKey \in BOOLEAN
    /\ deepSeekKey \in BOOLEAN
    /\ call = IdleCall
    /\ calls = NoCalls
    /\ probe = NoProbe
    /\ db = NoDb
    /\ app = NoApp

Call(task) ==
    /\ call.pc = "idle"
    /\ call' \in CallTo(call, task, apiKey, deepSeekKey)
    /\ UNCHANGED <<apiKey, deepSeekKey, calls, probe, db, app>>

FileRead ==
    /\ call.pc = "fileToBase64"
    /\ call' \in FileReadTo(call, apiKey, deepSeekKey)
    /\ UNCHANGED <<apiKey, deepSeekKey, calls, probe, db, app>>

FileReadFails ==
    /\ call.pc = "fileToBase64"
    /\ call' \in FileReadFailsTo(call)
    /\ UNCHANGED <<apiKey, deepSeekKey, calls, probe, db, app>>

GeminiRejects ==
    /\ call.pc = "generateContent"
    /\ call' \in GeminiRejectsTo(call, deepSeekKey)
    /\ UNCHANGED <<apiKey, deepSeekKey, calls, probe, db, app>>

GeminiResolves ==
    /\ call.pc = "generateContent"
    /\ call' \in GeminiResolvesTo(call, deepSeekKey)
    /\ UNCHANGED <<apiKey, deepSeekKey, calls, probe, db, app>>

BackoffElapses ==
    /\ call.pc = "backoff"
    /\ call' \in BackoffElapsesTo(call, apiKey, deepSeekKey)
    /\ UNCHANGED <<apiKey, deepSeekKey, calls, probe, db, app>>

DeepSeekRejects ==
    /\ call.pc = "fetch"
    /\ call' \in DeepSeekRejectsTo(call)
    /\ UNCHANGED <<apiKey, deepSeekKey, calls, probe, db, app>>

DeepSeekNotOk ==
    /\ call.pc = "fetch"
    /\ call' \in DeepSeekNotOkTo(call)
    /\ UNCHANGED <<apiKey, deepSeekKey, calls, probe, db, app>>

DeepSeekOk ==
    /\ call.pc = "fetch"
    /\ call' \in DeepSeekOkTo(call)
    /\ UNCHANGED <<apiKey, deepSeekKey, calls, probe, db, app>>

Next ==
    \/ \E task \in Tasks : Call(task)
    \/ FileRead
    \/ FileReadFails
    \/ GeminiRejects
    \/ GeminiResolves
    \/ BackoffElapses
    \/ DeepSeekRejects
    \/ DeepSeekNotOk
    \/ DeepSeekOk

Spec == Init /\ [][Next]_vars

-----------------------------------------------------------------------------
(* Vocabulary of the properties.                                           *)

\* c1 and c2 are the same character, or the same letter in different case
SameLetter(c1, c2) ==
    \/ c1 = c2
    \/ \E k \in 1..26 : {c1, c2} = {CharAt(UpperChars, k), CharAt(LowerChars, k)}

\* sub occurs in s at position p
OccursAt(s, sub, p, ignoreCase) ==
    /\ p + Len(sub) - 1 <= Len(s)
    /\ \A j \in 1..Len(sub) :
          IF ignoreCase THEN SameLetter(CharAt(s, p + j - 1), CharAt(sub, j))
          ELSE CharAt(s, p + j - 1) = CharAt(sub, j)

\* the retryable signature as the specification words it
RetryablePattern(error) ==
    /\ error.message # None
    /\ \E p \in 1..Len(error.message[1]) :
          \/ OccursAt(error.message[1], "internal error", p, TRUE)
          \/ OccursAt(error.message[1], "500", p, FALSE)
          \/ OccursAt(error.message[1], "503", p, FALSE)

\* the number of calls of one kind made so far
NumEv(ev) == Cardinality({ p \in 1..Len(call.log) : call.log[p].ev = ev })

IsWithRetryEvent(e) == e.ev # "fetch"

RECURSIVE Pow(_, _)
Pow(b, e) == IF e = 0 THEN 1 ELSE b * Pow(b, e - 1)

Finished == call.pc \in {"returned", "thrown"}

-----------------------------------------------------------------------------
\* C1: when an attempt of withRetry fails with an error that matches none of
\* the retryable patterns, that attempt is the last one: no attempt and no
\* backoff wait follows it, and withRetry rejects with that same error.
C1_NonRetryableStops ==
    \A k \in 1..Len(call.caught) :
        ~RetryablePattern(call.caught[k]) =>
            /\ k = Len(call.caught)
            /\ NumEv("fn") = k
            /\ NumEv("setTimeout") = k - 1
            /\ call.wrDone = "rejected"
            /\ call.wrError = Some(call.caught[k])
            /\ call.pc # "backoff"

\* the first attempt of a transcription was rejected with an authentication error
C1_Witness ==
    /\ call.task = "transcribeAudio"
    /\ call.pc = "thrown"
    /\ Len(call.caught) = 1
    /\ call.caught[1].message = Some("401 UNAUTHENTICATED")
    /\ NumEv("fn") = 1

\* C2: when every failure is retryable, withRetry makes exactly k attempts if
\* attempt k is the first to succeed and exactly retries attempts if none
\* succeeds; it never makes more than retries attempts.
C2_AttemptCount ==
    /\ NumEv("fn") <= call.retries
    /\ (\A k \in 1..Len(call.caught) : RetryablePattern(call.caught[k])) =>
          /\ call.wrDone = "fulfilled" =>
                /\ NumEv("fn") = Len(call.caught) + 1
                /\ NumEv("fn") <= call.retries
          /\ call.wrDone = "rejected" =>
                /\ NumEv("fn") = call.retries
                /\ Len(call.caught) = call.retries
          /\ call.pc = "generateContent" => NumEv("fn") = Len(call.caught) + 1
          /\ call.pc = "backoff" => NumEv("fn") = Len(call.caught)

\* two retryable failures, then success at the third attempt
C2_Witness ==
    /\ call.wrDone = "fulfilled"
    /\ Len(call.caught) = 2
    /\ NumEv("fn") = 3
    /\ \A k \in 1..2 : RetryablePattern(call.caught[k])

\* C3: the calls of withRetry alternate attempt, wait, attempt, ...; the wait
\* after failed attempt n lasts DefaultDelayMs * BackoffMultiplier^(n-1)
\* (1000 ms, then 2000 ms); no wait follows the final attempt or a success.
C3_BackoffSchedule ==
    LET wr == SelectSeq(call.log, IsWithRetryEvent)
    IN  /\ \A p \in 1..Len(wr) :
              IF p % 2 = 1 THEN wr[p] = LogFn
              ELSE wr[p] = LogSetTimeout(DefaultDelayMs * Pow(BackoffMultiplier, (p \div 2) - 1))
        /\ Len(wr) <= 2 * call.retries - 1
        /\ call.wrDone # "pending" => Len(wr) % 2 = 1
        /\ call.pc = "backoff" <=> (Len(wr) > 0 /\ Len(wr) % 2 = 0)

\* both waits have happened and the third attempt is in flight
C3_Witness ==
    /\ call.pc = "generateContent"
    /\ SelectSeq(call.log, IsWithRetryEvent) =
          << LogFn, LogSetTimeout(1000), LogFn, LogSetTimeout(2000), LogFn >>

\* C4: withRetry rejects with a retryable error only when the final attempt
\* threw it, and the error it rejects with is the error of that final attempt.
C4_RetryableSurfacedLast ==
    (call.wrDone = "rejected" /\ RetryablePattern(call.wrError[1])) =>
        /\ Len(call.caught) = call.retries
        /\ NumEv("fn") = call.retries
        /\ call.wrError[1] = call.caught[call.retries]
        /\ call.wrError[1].attempt = call.retries
        /\ call.task # "getWordDefinition" => call.error = call.wrError

\* three retryable failures with different messages; the third one is surfaced
C4_Witness ==
    /\ call.task = "generateSpeech"
    /\ call.pc = "thrown"
    /\ Len(call.caught) = 3
    /\ call.caught[1].message = Some("got status: 500")
    /\ call.caught[3].message = Some("503 Service Unavailable")
    /\ call.error = Some(call.caught[3])

-----------------------------------------------------------------------------
(* Vocabulary of the properties about the fallback.                        *)

DefineFailed == call.task = "getWordDefinition" /\ call.wrDone = "rejected"

\* the error was thrown on the DeepSeek path, outside withRetry
FromSecondary(error) ==
    error.attempt = 0 /\ error.thrownBy \in {"fetch", "callDeepSeek", "cleanAndParseJson"}

\* the values cleanAndParseJson can return
ParsedValues == { JsonValue(doc) : doc \in JsonDocs }

\* the three terminal outcomes of getWordDefinition
Success ==
    /\ call.pc = "returned"
    /\ call.result # None /\ call.error = None
    /\ call.result[1] \in ParsedValues
    /\ IF call.wrDone = "fulfilled" THEN NumEv("fetch") = 0 ELSE NumEv("fetch") = 1

PrimaryFailedNoFallback ==
    /\ call.pc = "thrown"
    /\ call.result = None /\ call.error # None
    /\ call.error = call.wrError
    /\ NumEv("fetch") = 0

FallbackFailed ==
    /\ call.pc = "thrown"
    /\ call.result = None /\ call.error # None
    /\ FromSecondary(call.error[1])
    /\ NumEv("fetch") = 1

\* every state a call in state c can step to under the given keys
StepsUnder(c, key, dsKey) ==
    CASE c.pc = "idle" -> UNION { CallTo(c, task, key, dsKey) : task \in Tasks }
      [] c.pc = "fileToBase64" -> FileReadTo(c, key, dsKey) \cup FileReadFailsTo(c)
      [] c.pc = "generateContent" -> GeminiRejectsTo(c, dsKey) \cup GeminiResolvesTo(c, dsKey)
      [] c.pc = "backoff" -> BackoffElapsesTo(c, key, dsKey)
      [] c.pc = "fetch" -> DeepSeekRejectsTo(c) \cup DeepSeekNotOkTo(c) \cup DeepSeekOkTo(c)
      [] OTHER -> {}

MissingKeyError == Err(Some(MsgApiKeyMissing), "getAi", 1)

-----------------------------------------------------------------------------
\* C6: when the primary call of getWordDefinition has failed and a fallback
\* key is configured, DeepSeek is called exactly once and nothing is retried
\* after it, whatever its error message; if it fails, the call rejects with
\* the error of the DeepSeek path, not with the primary's.
C6_FallbackOnce ==
    (DefineFailed /\ deepSeekKey) =>
        /\ NumEv("fetch") = 1
        /\ call.log[Len(call.log)] = LogFetch
        /\ call.pc \in {"fetch", "returned", "thrown"}
        /\ call.pc = "thrown" =>
              /\ call.error # None
              /\ FromSecondary(call.error[1])
              /\ call.error # call.wrError
        /\ call.pc # "thrown" => call.error = None

\* the primary failed, DeepSeek answered 503, a retryable signature, and the
\* call rejected with that error after its single DeepSeek request
C6_Witness ==
    /\ DefineFailed /\ deepSeekKey
    /\ call.pc = "thrown"
    /\ call.error = Some(Err(Some("DeepSeek API Error: 503"), "callDeepSeek", 0))
    /\ RetryablePattern(call.error[1])
    /\ NumEv("fetch") = 1

\* C7: when the primary call of getWordDefinition has failed and no fallback
\* key is configured, DeepSeek is never called and the call rejects with
\* exactly the error withRetry rejected with.
C7_NoFallbackKey ==
    (DefineFailed /\ ~deepSeekKey) =>
        /\ NumEv("fetch") = 0
        /\ call.pc = "thrown"
        /\ call.result = None
        /\ call.error = call.wrError
        /\ call.error = Some(call.caught[Len(call.caught)])

\* without a fallback key, the primary's unparseable reply is what the caller gets
C7_Witness ==
    /\ DefineFailed /\ ~deepSeekKey
    /\ call.pc = "thrown"
    /\ call.error = Some(Err(Some(MsgParseFailed), "cleanAndParseJson", 1))
    /\ NumEv("fetch") = 0

\* C8: a getWordDefinition call that has ended is in exactly one of the three
\* outcomes Success, PrimaryFailedNoFallback and FallbackFailed; before it
\* ends it has neither result nor error, and once ended it does not change.
C8_OneOutcome ==
    /\ [](call.task = "getWordDefinition" =>
            /\ Finished =>
                  Cardinality({ o \in {"S", "P", "F"} :
                                   \/ o = "S" /\ Success
                                   \/ o = "P" /\ PrimaryFailedNoFallback
                                   \/ o = "F" /\ FallbackFailed }) = 1
            /\ ~Finished => (call.result = None /\ call.error = None))
    /\ [][(call.task = "getWordDefinition" /\ Finished) => call' = call]_vars

\* the fallback succeeded after the primary had failed
C8_Witness ==
    /\ DefineFailed
    /\ Success
    /\ NumEv("fetch") = 1

\* C9, as claimed: without the primary key every task fails, with or without
\* a fallback key; without the fallback key DeepSeek is never called.
C9_Original ==
    /\ (~apiKey /\ Finished) => (call.pc = "thrown" /\ call.result = None)
    /\ ~deepSeekKey => NumEv("fetch") = 0

\* C9, amended: without the primary key no request reaches Gemini and the
\* single attempt fails with the missing-key error; transcribeAudio,
\* generateSpeech and scorePronunciation then fail, with or without a
\* fallback key, and getWordDefinition fails unless a fallback key is
\* configured and DeepSeek returns parseable JSON.  Without the fallback key
\* DeepSeek is never called, and every step other than getWordDefinition's
\* handling of a primary failure, and the DeepSeek steps themselves, is the
\* same step under the opposite setting of the fallback key.
C9_MissingKeys ==
    /\ [](~apiKey =>
            /\ call.pc # "generateContent" /\ call.pc # "backoff"
            /\ NumEv("fn") <= 1 /\ NumEv("setTimeout") = 0
            /\ \A k \in 1..Len(call.caught) : call.caught[k] = MissingKeyError
            /\ (Finished /\ call.task # "getWordDefinition") =>
                  /\ call.pc = "thrown" /\ call.result = None
                  /\ \/ call.error = Some(MissingKeyError)
                     \/ call.error = Some(Err(None, "fileToBase64", 0))
            /\ (Finished /\ call.task = "getWordDefinition") =>
                  /\ call.wrError = Some(MissingKeyError)
                  /\ ~deepSeekKey => call.error = Some(MissingKeyError)
                  /\ deepSeekKey => (NumEv("fetch") = 1 /\ (Success \/ FallbackFailed)))
    /\ [](~deepSeekKey => (NumEv("fetch") = 0 /\ call.pc # "fetch"))
    /\ [][ \/ call'.task = "getWordDefinition" /\ call'.wrDone = "rejected"
           \/ call.pc = "fetch"
           \/ call' \in StepsUnder(call, apiKey, ~deepSeekKey) ]_vars

\* without the primary key, getWordDefinition succeeded through DeepSeek
C9_Witness ==
    /\ ~apiKey /\ deepSeekKey
    /\ call.task = "getWordDefinition"
    /\ Success
    /\ call.wrError = Some(MissingKeyError)

\* C10: during transcribeAudio, generateSpeech and scorePronunciation DeepSeek
\* is never called, with or without a fallback key; a failure that withRetry
\* does not retry, and a failure of fileToBase64, is the error the call
\* rejects with, unchanged.
C10_NoFallbackForOtherTasks ==
    call.task \in Tasks \ {"getWordDefinition"} =>
        /\ NumEv("fetch") = 0 /\ call.pc # "fetch"
        /\ \A k \in 1..Len(call.caught) :
              NumEv("setTimeout") < k =>
                  (call.pc = "thrown" /\ call.error = Some(call.caught[k]))
        /\ call.pc = "thrown" =>
              /\ call.error # None /\ call.result = None
              /\ IF call.caught = <<>> THEN call.error = Some(Err(None, "fileToBase64", 0))
                 ELSE call.error = Some(call.caught[Len(call.caught)])
        /\ call.pc = "returned" => (call.wrDone = "fulfilled" /\ call.error = None)

\* with a fallback key configured, a scoring call whose reply had no text
\* rejected with its own error and DeepSeek was not called
C10_Witness ==
    /\ deepSeekKey
    /\ call.task = "scorePronunciation"
    /\ call.pc = "thrown"
    /\ call.error = Some(Err(Some(MsgScoringFailed), "scorePronunciation", 1))
    /\ NumEv("fetch") = 0

-----------------------------------------------------------------------------
(* mergeShortSegments on its own: the argument is drawn from the segment   *)
(* sequences below, the function is applied, and it can be applied again   *)
(* to its own result.                                                      *)

MaxSegments == 3

\* text and translation of a segment; one text starts with a blank
SegmentTexts ==
    { <<"Uh", "Euh">>, <<"well I think so", "je crois">>, <<" so it is", "voila">> }

\* start and end of a segment; 1000..3000 lasts exactly 2.0 seconds
SegmentTimes == { <<0, 500>>, <<500, 3000>>, <<1000, 3000>>, <<3000, 3400>> }

\* idiomatic and idiomExplanation of a segment
SegmentIdioms == { <<"", "">>, <<"Um", "filler">> }

SegmentInputs ==
    { Segment(t[1], t[2], x[1], x[2], d[1], d[2]) :
        t \in SegmentTimes, x \in SegmentTexts, d \in SegmentIdioms }

SegmentSeqs == UNION { [1..n -> SegmentInputs] : n \in 0..MaxSegments }

InitMerge ==
    /\ apiKey = FALSE
    /\ deepSeekKey = FALSE
    /\ call = IdleCall
    /\ calls = NoCalls
    /\ db = NoDb
    /\ app = NoApp
    /\ probe \in { [fn |-> "mergeShortSegments", arg |-> s, out |-> None] :
                     s \in SegmentSeqs }

\* mergeShortSegments(segments) returns
MergeSegments ==
    /\ probe.fn = "mergeShortSegments"
    /\ probe.out = None
    /\ probe' = [probe EXCEPT !.out = Some(mergeShortSegments(probe.arg))]
    /\ UNCHANGED <<apiKey, deepSeekKey, call, calls, db, app>>

\* the result is handed to mergeShortSegments a second time
MergeAgain ==
    /\ probe.fn = "mergeShortSegments"
    /\ probe.out # None
    /\ probe.out[1] # probe.arg
    /\ probe' = [probe EXCEPT !.arg = probe.out[1], !.out = None]
    /\ UNCHANGED <<apiKey, deepSeekKey, call, calls, db, app>>

NextMerge == MergeSegments \/ MergeAgain

SpecMerge == InitMerge /\ [][NextMerge]_vars

\* mergeShortSegments has returned
Merged == probe.fn = "mergeShortSegments" /\ probe.out # None

\* the words of a text: its maximal runs of characters that are not whitespace
WordCount(text) ==
    Cardinality({ k \in 1..Len(text) :
                    /\ ~IsSpace(CharAt(text, k))
                    /\ (k = 1 \/ IsSpace(CharAt(text, k - 1))) })

\* the reference pass over the first n segments: what has been emitted and
\* the accumulator
RECURSIVE ReferencePass(_, _)
ReferencePass(segments, n) ==
    IF n = 1 THEN [emitted |-> <<>>, acc |-> segments[1]]
    ELSE LET before == ReferencePass(segments, n - 1)
             acc == before.acc
             next == segments[n]
         IN  IF WordCount(acc.text) < 4 /\ acc.end - acc.start < 2000
             THEN [emitted |-> before.emitted,
                   acc |-> Segment(acc.start, next.end,
                               acc.text \o " " \o next.text,
                               acc.translation \o " " \o next.translation,
                               IF next.idiomatic # "" THEN next.idiomatic
                                                      ELSE acc.idiomatic,
                               IF next.idiomExplanation # "" THEN next.idiomExplanation
                                                             ELSE acc.idiomExplanation)]
             ELSE [emitted |-> Append(before.emitted, acc), acc |-> next]

Reference(segments) ==
    IF segments = <<>> THEN <<>>
    ELSE LET last == ReferencePass(segments, Len(segments))
         IN  Append(last.emitted, last.acc)

\* C11: mergeShortSegments returns what the reference left-to-right pass
\* returns, a segment being short when its text has fewer than 4 words and
\* it lasts less than 2.0 seconds.
C11_EqualsReference ==
    Merged => probe.out[1] = Reference(probe.arg)

-----------------------------------------------------------------------------
(* The transcription results of transcribeAudio.                           *)

\* a call of a task, or mergeShortSegments on its own over more segment
\* sequences than the provider's documents above hold
InitTranscription == Init \/ InitMerge
NextTranscription == (probe = NoProbe /\ Next) \/ NextMerge
SpecTranscription == InitTranscription /\ [][NextTranscription]_vars

\* transcribeAudio resolved with a result
TranscribeSucceeded == call.task = "transcribeAudio" /\ call.pc = "returned"

\* the JSON document of the last reply of the primary provider, parsed
ProviderDocument == cleanAndParseJson(call.reply[1].text, 0).value

\* segments in non-decreasing start order, none overlapping the next, none
\* ending before it starts
WellTimed(segments) ==
    \A k \in 1..Len(segments) :
        /\ segments[k].end >= segments[k].start
        /\ k < Len(segments) =>
              /\ segments[k].start <= segments[k + 1].start
              /\ segments[k].end <= segments[k + 1].start

\* C12 as stated: the segments of every result of transcribeAudio are in
\* non-decreasing start order, do not overlap, and end no earlier than they
\* start.
C12_Original ==
    TranscribeSucceeded => WellTimed(call.result[1].segments)

\* C12: when the segments of the provider's document are in non-decreasing
\* start order, do not overlap and end no earlier than they start, so are
\* the segments of the result transcribeAudio returns.
C12_TimingPreserved ==
    /\ (TranscribeSucceeded /\ WellTimed(ProviderDocument.segments))
          => WellTimed(call.result[1].segments)
    /\ (Merged /\ WellTimed(probe.arg)) => WellTimed(probe.out[1])

\* a result of two segments, the first merged from two of the provider's
C12_Witness ==
    /\ TranscribeSucceeded
    /\ WellTimed(ProviderDocument.segments)
    /\ Len(ProviderDocument.segments) = 3
    /\ Len(call.result[1].segments) = 2

-----------------------------------------------------------------------------
(* Segments over the thresholds.                                           *)

\* the segment has at least 4 words or lasts at least 2.0 seconds
OverThresholds(segment) ==
    WordCount(segment.text) >= 4 \/ segment.end - segment.start >= 2000

\* C13: when every segment of the argument has at least 4 words or lasts at
\* least 2.0 seconds, mergeShortSegments returns as many segments as it was
\* given.
C13_NoFurtherShrink ==
    (Merged /\ \A k \in 1..Len(probe.arg) : OverThresholds(probe.arg[k]))
        => Len(probe.out[1]) = Len(probe.arg)

\* a second pass: the argument is a result of mergeShortSegments in which
\* two segments were joined, and all of its segments are over the thresholds
C13_Witness ==
    /\ Merged
    /\ Len(probe.arg) = 2
    /\ probe.arg[1].text = "Uh well I think so"
    /\ \A k \in 1..Len(probe.arg) : OverThresholds(probe.arg[k])

-----------------------------------------------------------------------------
(* Payloads without segments, and replies without payload.                 *)

\* the primary provider's last reply to transcribeAudio held a JSON document
TranscriptReplied ==
    /\ call.task = "transcribeAudio"
    /\ call.reply # None
    /\ call.reply[1].text # None
    /\ cleanAndParseJson(call.reply[1].text, 0).ok

\* the document has the three fields of a TranscriptionResponse
WellFormed(document) == {"language", "meta", "segments"} \subseteq DOMAIN document

\* C14: when the provider answers transcribeAudio with a well-formed
\* document that has no segments, the call succeeds and the segments of its
\* result are the empty sequence; mergeShortSegments of the empty sequence is
\* the empty sequence.
C14_ZeroSegments ==
    /\ (/\ TranscriptReplied
        /\ WellFormed(ProviderDocument)
        /\ ProviderDocument.segments = <<>>)
          => /\ call.pc = "returned"
             /\ call.error = None
             /\ call.result[1].segments = <<>>
    /\ (Merged /\ probe.arg = <<>>) => probe.out[1] = <<>>

\* transcribeAudio answered with a well-formed document without segments
C14_Witness ==
    /\ TranscriptReplied
    /\ call.reply[1].text = Some(DocTranscriptEmpty)
    /\ call.pc = "returned"


\* an absent or empty payload
Absent(payload) == payload = None \/ payload = Some("")

\* the primary provider's last reply carried nothing the task can use
EmptyPayload ==
    /\ call.reply # None
    /\ \/ call.task = "transcribeAudio" /\ Absent(call.reply[1].text)
       \/ call.task = "generateSpeech" /\ Absent(call.reply[1].audio)

\* the message of the empty-payload error of the task
EmptyPayloadMessage ==
    IF call.task = "transcribeAudio" THEN MsgEmptyResponse ELSE MsgNoAudio

\* the messages of the other errors a task can fail with
OtherMessages ==
    { m[1] : m \in GeminiErrorMessages \ {None} }
        \cup { MsgApiKeyMissing, MsgParseFailed, MsgScoringFailed, MsgTypeError }

\* C15: when the provider's reply to transcribeAudio has no text, or its
\* reply to generateSpeech has no inline audio, the call fails with the
\* empty-payload error of the task, raised on the attempt that received the
\* reply; that attempt is the last thing the call did, and there is no result.
C15_EmptyPayloadFails ==
    EmptyPayload =>
        /\ call.pc = "thrown"
        /\ call.result = None
        /\ call.error = Some(Err(Some(EmptyPayloadMessage), call.task, call.i + 1))
        /\ NumEv("fn") = call.i + 1
        /\ call.log[Len(call.log)] = LogFn
        /\ EmptyPayloadMessage \notin OtherMessages
        /\ MsgEmptyResponse # MsgNoAudio

\* transcribeAudio received a reply without text on its second attempt
C15_Witness ==
    /\ EmptyPayload
    /\ call.task = "transcribeAudio"
    /\ call.reply[1].text = None
    /\ call.i = 1
    /\ call.pc = "thrown"

\* C19: every result transcribeAudio returns has a meta block, a language
\* and a segments sequence, whatever document the provider returned.
C19_ResultComplete ==
    TranscribeSucceeded => {"meta", "language", "segments"} \subseteq DOMAIN call.result[1]

-----------------------------------------------------------------------------
(* cleanAndParseJson on its own: the text is put together from an opening  *)
(* marker, a body and a closing marker, with or without whitespace around  *)
(* them.                                                                   *)

ParseBodies == { DocDefinition, DocTranscriptEmpty, "not json", "" }
ParseBlanks == { "", "\n" }

\* the text of a reply, by its parts
ParseParts ==
    [ ahead : {"", " "}, lead : {"", FenceJson, Fence}, gap1 : ParseBlanks,
      body : ParseBodies,
      gap2 : ParseBlanks, trail : {"", Fence}, behind : ParseBlanks ]

TextOf(parts) ==
    parts.ahead \o parts.lead \o parts.gap1 \o parts.body
        \o parts.gap2 \o parts.trail \o parts.behind

InitParse ==
    /\ apiKey = FALSE
    /\ deepSeekKey = FALSE
    /\ call = IdleCall
    /\ calls = NoCalls
    /\ db = NoDb
    /\ app = NoApp
    /\ probe \in { [fn |-> "cleanAndParseJson", arg |-> parts, out |-> None] :
                     parts \in ParseParts }

\* cleanAndParseJson(text) returns or throws
ParseText ==
    /\ probe.fn = "cleanAndParseJson"
    /\ probe.out = None
    /\ probe' = [probe EXCEPT !.out = Some(cleanAndParseJson(Some(TextOf(probe.arg)), 0))]
    /\ UNCHANGED <<apiKey, deepSeekKey, call, calls, db, app>>

NextParse == ParseText

SpecParse == InitParse /\ [][NextParse]_vars

\* cleanAndParseJson has returned or thrown
Parsed == probe.fn = "cleanAndParseJson" /\ probe.out # None

\* the body is a JSON document
ValidBody(parts) == parts.body \in JsonDocs

\* C16 as stated: an opening marker, with or without a language tag, and a
\* closing marker are stripped, and the parsed body is returned when the
\* body is valid JSON; otherwise the call fails with an error that holds the
\* raw text.
C16_Original ==
    Parsed =>
        LET parts == probe.arg
            out == probe.out[1]
        IN  /\ (ValidBody(parts) /\ parts.ahead = "" /\ parts.behind = "")
                  => (out.ok /\ out.value = JsonValue(parts.body))
            /\ ~ValidBody(parts)
                  => (~out.ok /\ includes(out.error.message[1], TextOf(parts)))

-----------------------------------------------------------------------------
(* getCorrectMimeType on its own.                                          *)

knownMimeTypes ==
    ("mp3" :> "audio/mp3") @@ ("wav" :> "audio/wav") @@ ("flac" :> "audio/flac")
        @@ ("m4a" :> "audio/mp4") @@ ("aac" :> "audio/aac") @@ ("ogg" :> "audio/ogg")
        @@ ("oga" :> "audio/ogg") @@ ("webm" :> "audio/webm") @@ ("mp4" :> "audio/mp4")

\* knownMimeTypes is an object literal, so a lookup that finds no own property
\* goes on to Object.prototype.  These are its members whose names are in
\* lower case, the only ones a lower-cased extension can name; their values,
\* a function and an object, are written as the strings that describe them.
ObjectPrototype ==
    ("constructor" :> "[Function: Object]") @@ ("__proto__" :> "[Object: null prototype] {}")

\* object[key]: the own property, else the inherited one, else undefined
GetProperty(object, key) ==
    IF key \in DOMAIN object THEN Some(object[key])
    ELSE IF key \in DOMAIN ObjectPrototype THEN Some(ObjectPrototype[key])
    ELSE None

\* name.split('.').pop(): what follows the last '.', the whole name when it
\* has none
SplitPop(name) ==
    LET dots == { k \in 1..Len(name) : CharAt(name, k) = "." }
    IN  IF dots = {} THEN name
        ELSE SubSeq(name, (CHOOSE k \in dots : \A j \in dots : j <= k) + 1, Len(name))

getCorrectMimeType(file) ==
    IF file.type # "" /\ (startsWith(file.type, "audio/") \/ startsWith(file.type, "video/"))
    THEN file.type
    ELSE LET ext == toLowerCase(SplitPop(file.name))
         IN  IF ext # "" /\ GetProperty(knownMimeTypes, ext) # None
             THEN GetProperty(knownMimeTypes, ext)[1]
             ELSE "audio/mp3"

FileNames ==
    { "a.mp3", "a.MP3", "a.wav", "a.flac", "clip.M4A", "a.aac", "a.ogg", "a.oga",
      "a.webm", "a.mp4", "a.b.wav", "x.bin", "a.", ".ogg", "wav", "memo",
      "a.constructor" }

FileTypes ==
    { "", "application/octet-stream", "audio/x-custom", "video/mp4", "AUDIO/WAV",
      "application/ogg" }

InitMime ==
    /\ apiKey = FALSE
    /\ deepSeekKey = FALSE
    /\ call = IdleCall
    /\ calls = NoCalls
    /\ db = NoDb
    /\ app = NoApp
    /\ probe \in { [fn |-> "getCorrectMimeType",
                    arg |-> [name |-> n, type |-> t], out |-> None] :
                     n \in FileNames, t \in FileTypes }

\* getCorrectMimeType(file) returns
ResolveMime ==
    /\ probe.fn = "getCorrectMimeType"
    /\ probe.out = None
    /\ probe' = [probe EXCEPT !.out = Some(getCorrectMimeType(probe.arg))]
    /\ UNCHANGED <<apiKey, deepSeekKey, call, calls, db, app>>

NextMime == ResolveMime

SpecMime == InitMime /\ [][NextMime]_vars

\* the extensions of the table
TableExtensions == { "mp3", "wav", "flac", "m4a", "aac", "ogg", "oga", "webm", "mp4" }

\* the lower-cased text after the final '.' of the name, if the name has a '.'
ExtensionOf(name) ==
    IF \E k \in 1..Len(name) : CharAt(name, k) = "."
    THEN LET last == CHOOSE k \in 1..Len(name) :
                        /\ CharAt(name, k) = "."
                        /\ \A j \in (k + 1)..Len(name) : CharAt(name, j) # "."
         IN  Some(toLowerCase(SubSeq(name, last + 1, Len(name))))
    ELSE None

\* C17: getCorrectMimeType returns the declared type when it is non-empty
\* and begins with audio/ or video/; otherwise the table entry of the
\* lower-cased text after the final '.' of the name when that is one of the
\* nine extensions of the table (audio/mp4 for m4a and mp4); otherwise
\* audio/mp3.
C17_MimeResolution ==
    (probe.fn = "getCorrectMimeType" /\ probe.out # None) =>
        LET file == probe.arg
            ext == ExtensionOf(file.name)
        IN  probe.out[1] =
                IF file.type # "" /\ (\/ SubSeq(file.type, 1, 6) = "audio/"
                                      \/ SubSeq(file.type, 1, 6) = "video/")
                THEN file.type
                ELSE IF ext # None /\ ext[1] \in TableExtensions
                THEN (IF ext[1] \in {"m4a", "mp4"} THEN "audio/mp4"
                      ELSE knownMimeTypes[ext[1]])
                ELSE "audio/mp3"

-----------------------------------------------------------------------------
(* Several task calls in flight at once.  The locals of withRetry (i,       *)
(* delayMs, lastError) and of the task functions belong to one invocation; *)
(* the calls share process.env, which none of them writes.                 *)

NumCalls == 2

\* the answers the primary provider gives while several calls are in flight
FewGeminiMessages == { Some("got status: 500"), Some("401 UNAUTHENTICATED") }
FewGeminiReplies ==
    { <<None, None>>, <<Some(DocDefinition), Some("UklGRg==")>>,
      <<Some(DocTranscriptTwo), None>> }

\* the states a call in state c can step to, as in StepsUnder
StepsOfCall(c, key, dsKey) ==
    CASE c.pc = "idle" -> UNION { CallTo(c, task, key, dsKey) : task \in Tasks }
      [] c.pc = "fileToBase64" -> FileReadTo(c, key, dsKey) \cup FileReadFailsTo(c)
      [] c.pc = "generateContent" ->
            GeminiRejectsWith(c, dsKey, FewGeminiMessages)
                \cup GeminiResolvesWith(c, dsKey, FewGeminiReplies)
      [] c.pc = "backoff" -> BackoffElapsesTo(c, key, dsKey)
      [] c.pc = "fetch" -> DeepSeekRejectsTo(c) \cup DeepSeekNotOkTo(c) \cup DeepSeekOkTo(c)
      [] OTHER -> {}

\* faulty variant: delayMs is a variable of the module, so that the delay
\* one call has reached is the delay of every call
StepCallSharedDelay(cs, k, c1) ==
    [j \in DOMAIN cs |-> IF j = k THEN c1 ELSE [cs[j] EXCEPT !.delayMs = c1.delayMs]]

\* call k steps to c1: its locals are its own, lines 30-31
StepCall(cs, k, c1) == [cs EXCEPT ![k] = c1]

InitConcurrent ==
    /\ apiKey \in BOOLEAN
    /\ deepSeekKey \in BOOLEAN
    /\ call = IdleCall
    /\ probe = NoProbe
    /\ db = NoDb
    /\ app = NoApp
    /\ calls = [k \in 1..NumCalls |-> IdleCall]

\* one step of call k: the task is called, or a promise it awaits settles
CallSteps(k) ==
    /\ calls' \in { StepCall(calls, k, c1) :
                      c1 \in StepsOfCall(calls[k], apiKey, deepSeekKey) }
    /\ UNCHANGED <<apiKey, deepSeekKey, call, probe, db, app>>

NextConcurrent == \E k \in 1..NumCalls : CallSteps(k)

SpecConcurrent == InitConcurrent /\ [][NextConcurrent]_vars

\* the number of events ev in the log of call c
NumEvOf(c, ev) == Cardinality({ p \in 1..Len(c.log) : c.log[p].ev = ev })

\* C18: with several calls in flight, the attempt count and the backoff
\* delay of every call are those of its own attempts, and every step is the
\* step of one call, one that this call can take alone from its state, to
\* an outcome it can reach alone, and changes nothing of the other calls.
C18_NoSharedState ==
    /\ [](\A k \in DOMAIN calls :
            /\ calls[k].i = (IF NumEvOf(calls[k], "fn") = 0 THEN 0
                             ELSE NumEvOf(calls[k], "fn") - 1)
            /\ calls[k].delayMs = DefaultDelayMs * Pow(BackoffMultiplier, calls[k].i))
    /\ [][\E k \in DOMAIN calls :
            /\ calls'[k] \in StepsOfCall(calls[k], apiKey, deepSeekKey)
            /\ \A j \in DOMAIN calls \ {k} : calls'[j] = calls[j]]_vars

\* two calls await the provider at once, one on its third attempt with its
\* delay doubled twice, the other on its first
C18_Witness ==
    /\ calls # NoCalls
    /\ calls[1].pc = "generateContent" /\ calls[1].i = 2 /\ calls[1].delayMs = 4000
    /\ calls[2].pc = "generateContent" /\ calls[2].i = 0 /\ calls[2].delayMs = 1000

-----------------------------------------------------------------------------
(* historyDb: the object store `history' of IndexedDB, keyed by id, and    *)
(* the clock that Date.now() reads.                                        *)

MaxNow == 3   \* the clock is followed for this many milliseconds
MaxOps == 4   \* and the store for this many operations

HistoryFileNames == { "a.mp3", "b.wav" }

Digits == "0123456789"

\* n.toString()
RECURSIVE NumberToString(_)
NumberToString(n) ==
    IF n < 10 THEN CharAt(Digits, n + 1)
    ELSE NumberToString(n \div 10) \o CharAt(Digits, (n % 10) + 1)

\* the order of string keys in an object store: by code unit, a prefix first
RECURSIVE KeyLess(_, _)
KeyLess(a, b) ==
    IF Len(a) = 0 THEN Len(b) > 0
    ELSE IF Len(b) = 0 THEN FALSE
    ELSE IF CharAt(a, 1) = CharAt(b, 1)
    THEN KeyLess(SubSeq(a, 2, Len(a)), SubSeq(b, 2, Len(b)))
    ELSE \E i, j \in 1..10 :
            i < j /\ CharAt(Digits, i) = CharAt(a, 1) /\ CharAt(Digits, j) = CharAt(b, 1)

\* store.put(entry) with keyPath 'id': the entry replaces the one of its key
StorePut(store, entry) == { e \in store : e.id # entry.id } \cup {entry}

\* store.delete(id)
StoreDelete(store, id) == { e \in store : e.id # id }

\* store.getAll(): the entries in the order of their keys
RECURSIVE StoreGetAll(_)
StoreGetAll(store) ==
    IF store = {} THEN <<>>
    ELSE LET first == CHOOSE e \in store : \A f \in store \ {e} : KeyLess(e.id, f.id)
         IN  <<first>> \o StoreGetAll(store \ {first})

\* results.sort((a, b) => b.date - a.date): stable, latest date first
RECURSIVE SortByDate(_)
SortByDate(results) ==
    IF Len(results) = 0 THEN <<>>
    ELSE LET sorted == SortByDate(SubSeq(results, 1, Len(results) - 1))
             last == results[Len(results)]
             ahead == Cardinality({ k \in 1..Len(sorted) : sorted[k].date >= last.date })
         IN  SubSeq(sorted, 1, ahead) \o <<last>> \o SubSeq(sorted, ahead + 1, Len(sorted))

InitHistory ==
    /\ apiKey = FALSE
    /\ deepSeekKey = FALSE
    /\ call = IdleCall
    /\ calls = NoCalls
    /\ probe = NoProbe
    /\ db = [fn |-> "historyDb",
             store |-> {},      \* the entries of the object store
             now |-> 0,         \* what Date.now() returns
             log |-> <<>>,      \* the operations that succeeded, in order
             listing |-> None]  \* what getAll resolved with, the store unchanged since
    /\ app = NoApp

\* a millisecond passes
Tick ==
    /\ db.fn = "historyDb"
    /\ db.now < MaxNow
    /\ db' = [db EXCEPT !.now = @ + 1]
    /\ UNCHANGED <<apiKey, deepSeekKey, call, calls, probe, app>>

\* historyDb.save(file, transcription) resolves: Date.now() is read for the
\* id and again for the date, a millisecond later at most
Save ==
    /\ db.fn = "historyDb"
    /\ Len(db.log) < MaxOps
    /\ \E fileName \in HistoryFileNames, date \in {db.now, db.now + 1} :
          /\ date <= MaxNow
          /\ LET number == Len(db.log) + 1
                 entry == [id |-> NumberToString(db.now), fileName |-> fileName,
                           date |-> date, content |-> number]
             IN  db' = [db EXCEPT
                           !.store = StorePut(@, entry),
                           !.now = date,
                           !.log = Append(@, [op |-> "save", id |-> entry.id,
                                              content |-> number]),
                           !.listing = None]
    /\ UNCHANGED <<apiKey, deepSeekKey, call, calls, probe, app>>

\* historyDb.save rejects: the request fails and nothing is stored
SaveFails ==
    /\ db.fn = "historyDb"
    /\ Len(db.log) < MaxOps
    /\ db' = [db EXCEPT !.log = Append(@, [op |-> "save failed", id |-> "", content |-> 0])]
    /\ UNCHANGED <<apiKey, deepSeekKey, call, calls, probe, app>>

\* historyDb.delete(id) resolves, for a stored id or for one that is not
Delete ==
    /\ db.fn = "historyDb"
    /\ Len(db.log) < MaxOps
    /\ \E id \in { NumberToString(n) : n \in 0..MaxNow } :
          db' = [db EXCEPT
                    !.store = StoreDelete(@, id),
                    !.log = Append(@, [op |-> "delete", id |-> id, content |-> 0]),
                    !.listing = None]
    /\ UNCHANGED <<apiKey, deepSeekKey, call, calls, probe, app>>

\* historyDb.getAll() resolves
GetAll ==
    /\ db.fn = "historyDb"
    /\ db.listing = None
    /\ db' = [db EXCEPT !.listing = Some(SortByDate(StoreGetAll(db.store)))]
    /\ UNCHANGED <<apiKey, deepSeekKey, call, calls, probe, app>>

NextHistory == Tick \/ Save \/ SaveFails \/ Delete \/ GetAll

SpecHistory == InitHistory /\ [][NextHistory]_vars

\* the saves that no later delete of their id followed
LiveSaves ==
    { p \in 1..Len(db.log) :
        /\ db.log[p].op = "save"
        /\ \A q \in (p + 1)..Len(db.log) :
              ~(db.log[q].op = "delete" /\ db.log[q].id = db.log[p].id) }

\* C20: what getAll returns holds exactly one entry for every save that no
\* delete of its id followed and no other entry, in the order of
\* non-increasing date.
C20_OneEntryPerSave ==
    (db.fn = "historyDb" /\ db.listing # None) =>
        LET listing == db.listing[1]
        IN  /\ \A p \in LiveSaves :
                  Cardinality({ k \in 1..Len(listing) :
                                  listing[k].content = db.log[p].content }) = 1
            /\ Len(listing) = Cardinality(LiveSaves)
            /\ \A k \in 1..(Len(listing) - 1) : listing[k].date >= listing[k + 1].date

-----------------------------------------------------------------------------
(* The App component, src/App.tsx.  app holds the React state of the       *)
(* component (appState, audioFile, transcription, currentTime,             *)
(* errorDetails, isHistoryOpen), the invocations of handleFileSelected     *)
(* so far, and the handler that ran last with what it was given (setState  *)
(* for the inline callbacks that set one field).                           *)
(* Invocation k awaits the transcribeAudio call calls[k], whose locals are *)
(* gone once it has settled, then historyDb.save, of which App sees only   *)
(* whether its promise resolves or rejects.  A handler runs from one await *)
(* to the next in one step; the state updates it makes there are applied   *)
(* together.  Every recording has a name, and the value of transcription   *)
(* carries, next to the response, the name of the recording it was made    *)
(* from.  The active tab is left out, and so are the callbacks of          *)
(* AudioPlayer and TranscriptView that move currentTime.                   *)

MaxSelections == 2

\* the files the user can hand to FileUpload
AppFiles == { "a.mp3", "b.wav" }

\* the entries the history sidebar lists, saved by earlier sessions
HistoryEntries ==
    { [fileName |-> "old.m4a",
       transcription |->
           [JsonValue(DocTranscriptThree) EXCEPT !.segments = mergeShortSegments(@)]] }

\* what generateContent answers to the requests of App
AppGeminiMessages == { Some("got status: 500"), Some("The model is overloaded") }
AppGeminiReplies == { <<Some(DocTranscriptTwo), None>> }

\* the message the catch block of handleFileSelected reads off err, lines
\* 55-62: an Error gives its message, the event of FileReader is an object
MessageOf(err) ==
    IF err.thrownBy = "fileToBase64" \/ err.message = None
    THEN "{\"isTrusted\":true}"
    ELSE err.message[1]

\* the error signatures of handleFileSelected, lines 64-88
Classify(msg) ==
    LET lowerMsg == toLowerCase(msg)
    IN  IF \/ includes(lowerMsg, "api key is missing")
           \/ includes(lowerMsg, "401")
           \/ includes(lowerMsg, "unauthenticated")
           \/ includes(lowerMsg, "invalid authentication")
        THEN "API_KEY_MISSING"
        ELSE IF \/ includes(lowerMsg, "internal error")
                \/ includes(lowerMsg, "500")
                \/ includes(lowerMsg, "503")
                \/ includes(lowerMsg, "overloaded")
        THEN "SERVICE_UNAVAILABLE"
        ELSE IF \/ includes(lowerMsg, "fetch failed")
                \/ includes(lowerMsg, "network")
                \/ includes(lowerMsg, "failed to fetch")
        THEN "NETWORK_ERROR"
        ELSE msg

\* handler op has run with the number arg, after the call c settled
RanAfter(a, op, arg, c) == [a EXCEPT !.last = [op |-> op, arg |-> arg, call |-> c]]

Ran(a, op, arg) == RanAfter(a, op, arg, IdleCall)

\* handleFileSelected up to its await of transcribeAudio, lines 26-39
FileSelected(a, file) ==
    Ran([a EXCEPT !.appState = "PROCESSING",
                  !.errorDetails = None,
                  !.audioFile = Some([name |-> file]),
                  !.handlers = Append(@, [file |-> file, pc |-> "transcribeAudio"])],
        "handleFileSelected", Len(a.handlers) + 1)

\* the catch block of handleFileSelected, lines 51-91
ErrorCaught(a, k, err) ==
    [a EXCEPT !.errorDetails = Some(Classify(MessageOf(err))),
              !.appState = "ERROR",
              !.handlers[k] = [file |-> @.file, pc |-> "done"]]

\* handleFileSelected after transcribeAudio settled as in c: it rejects and
\* the catch block runs, or it resolves and historyDb.save is awaited, line 43
TranscribeSettled(a, k, c) ==
    IF c.pc = "thrown"
    THEN RanAfter(ErrorCaught(a, k, c.error[1]), "catch", k, c)
    ELSE RanAfter([a EXCEPT !.handlers[k] =
                                [file |-> @.file, pc |-> "save", result |-> c.result[1]]],
                  "transcribed", k, c)

\* handleFileSelected after the inner try, lines 49-50
ShowResult(a, k) ==
    [a EXCEPT !.transcription =
                  Some([of |-> a.handlers[k].file, value |-> a.handlers[k].result]),
              !.appState = "READY",
              !.handlers[k] = [file |-> @.file, pc |-> "done"]]

\* historyDb.save resolved, lines 43-44 and 49-50
SaveDone(a, k) == Ran(ShowResult(a, k), "saved", k)

\* faulty variant: the save is awaited in the outer try only
SaveFailedOuterCatch(a, k, error) == Ran(ErrorCaught(a, k, error), "saveFailed", k)

\* historyDb.save rejected: the inner catch warns and the handler goes on,
\* lines 45-50
SaveFailed(a, k, error) == Ran(ShowResult(a, k), "saveFailed", k)

\* handleLoadHistory, lines 94-114
handleLoadHistory(a, entry) ==
    Ran([a EXCEPT !.audioFile = Some([name |-> entry.fileName]),
                  !.transcription =
                      Some([of |-> entry.fileName, value |-> entry.transcription]),
                  !.currentTime = 0,
                  !.errorDetails = None,
                  !.appState = "READY",
                  !.isHistoryOpen = FALSE],
        "handleLoadHistory", 0)

\* handleReset, lines 116-122
handleReset(a) ==
    Ran([a EXCEPT !.appState = "IDLE",
                  !.audioFile = None,
                  !.transcription = None,
                  !.currentTime = 0,
                  !.errorDetails = None],
        "handleReset", 0)

\* !segment.isFavorite, where the field may be undefined
NotFavorite(segment) ==
    ~("isFavorite" \in DOMAIN segment /\ segment.isFavorite)

\* { ...segment, isFavorite: !segment.isFavorite }, lines 127-130
ToggledSegment(segment) ==
    [isFavorite |-> NotFavorite(segment)]
        @@ [f \in DOMAIN segment \ {"isFavorite"} |-> segment[f]]

\* faulty variant: the flag of every segment is toggled
ToggleEveryFavorite(t, index) ==
    [t EXCEPT !.segments = [j \in DOMAIN @ |-> ToggledSegment(@[j])]]

\* handleToggleFavorite on the response t, lines 124-135; index counts
\* from 1 here, from 0 in the source
ToggleFavorite(t, index) ==
    [t EXCEPT !.segments = [@ EXCEPT ![index] = ToggledSegment(@)]]

handleToggleFavorite(a, index) ==
    IF a.transcription = None THEN a
    ELSE Ran([a EXCEPT !.transcription =
                           Some([a.transcription[1] EXCEPT
                                    !.value = ToggleFavorite(@, index)])],
             "handleToggleFavorite", index)

\* the steps of the transcribeAudio call c of an invocation
StepsOfTranscribe(c, key) ==
    CASE c.pc = "fileToBase64" -> FileReadTo(c, key, FALSE) \cup FileReadFailsTo(c)
      [] c.pc = "generateContent" ->
            GeminiRejectsWith(c, FALSE, AppGeminiMessages)
                \cup GeminiResolvesWith(c, FALSE, AppGeminiReplies)
      [] c.pc = "backoff" -> BackoffElapsesTo(c, key, FALSE)
      [] OTHER -> {}

InitApp ==
    /\ apiKey \in BOOLEAN
    /\ deepSeekKey = FALSE
    /\ call = IdleCall
    /\ calls = NoCalls
    /\ probe = NoProbe
    /\ db = NoDb
    /\ app = [fn |-> "App",
              appState |-> "IDLE",
              audioFile |-> None,
              transcription |-> None,
              currentTime |-> 0,
              errorDetails |-> None,
              isHistoryOpen |-> FALSE,
              handlers |-> <<>>,
              last |-> [op |-> "none", arg |-> 0, call |-> IdleCall]]

\* the user hands a file to FileUpload, shown while IDLE, line 186
SelectFile ==
    /\ app.appState = "IDLE"
    /\ ~app.isHistoryOpen
    /\ Len(app.handlers) < MaxSelections
    /\ \E file \in AppFiles :
        /\ app' = FileSelected(app, file)
        /\ calls' = Append(calls, CHOOSE c \in CallTo(IdleCall, "transcribeAudio", apiKey, FALSE) : TRUE)
    /\ UNCHANGED <<apiKey, deepSeekKey, call, probe, db>>

\* a promise the transcribeAudio call of invocation k awaits settles; when
\* the call ends with it, the handler resumes
TranscribeStep(k) ==
    /\ app.handlers[k].pc = "transcribeAudio"
    /\ \E c1 \in StepsOfTranscribe(calls[k], apiKey) :
        IF c1.pc \in {"returned", "thrown"}
        THEN /\ calls' = StepCall(calls, k, IdleCall)
             /\ app' = TranscribeSettled(app, k, c1)
        ELSE /\ calls' = StepCall(calls, k, c1)
             /\ app' = app
    /\ UNCHANGED <<apiKey, deepSeekKey, call, probe, db>>

SaveResolves(k) ==
    /\ app.handlers[k].pc = "save"
    /\ app' = SaveDone(app, k)
    /\ UNCHANGED <<apiKey, deepSeekKey, call, calls, probe, db>>

SaveRejects(k) ==
    /\ app.handlers[k].pc = "save"
    /\ app' = SaveFailed(app, k, Err(Some("QuotaExceededError"), "historyDb.save", 0))
    /\ UNCHANGED <<apiKey, deepSeekKey, call, calls, probe, db>>

\* the history button of the header, line 155
OpenHistory ==
    /\ ~app.isHistoryOpen
    /\ app' = Ran([app EXCEPT !.isHistoryOpen = TRUE], "setState", 0)
    /\ UNCHANGED <<apiKey, deepSeekKey, call, calls, probe, db>>

\* onClose of the sidebar, line 285
CloseHistory ==
    /\ app.isHistoryOpen
    /\ app' = Ran([app EXCEPT !.isHistoryOpen = FALSE], "setState", 0)
    /\ UNCHANGED <<apiKey, deepSeekKey, call, calls, probe, db>>

\* an entry of the open sidebar is chosen, line 286
LoadHistory ==
    /\ app.isHistoryOpen
    /\ \E entry \in HistoryEntries : app' = handleLoadHistory(app, entry)
    /\ UNCHANGED <<apiKey, deepSeekKey, call, calls, probe, db>>

\* the back button of the header, line 149, or Try Again, line 250
Reset ==
    /\ app.appState # "IDLE"
    /\ ~app.isHistoryOpen
    /\ app' = handleReset(app)
    /\ UNCHANGED <<apiKey, deepSeekKey, call, calls, probe, db>>

\* the star of a segment shown by TranscriptView, lines 272-275
Favorite ==
    /\ app.appState = "READY"
    /\ app.transcription # None
    /\ app.audioFile # None
    /\ ~app.isHistoryOpen
    /\ \E index \in 1..Len(app.transcription[1].value.segments) :
        app' = handleToggleFavorite(app, index)
    /\ UNCHANGED <<apiKey, deepSeekKey, call, calls, probe, db>>

\* onEnterShadowing of AudioPlayer, line 302
EnterShadowing ==
    /\ app.appState = "READY"
    /\ app.audioFile # None
    /\ ~app.isHistoryOpen
    /\ app' = Ran([app EXCEPT !.appState = "SHADOWING"], "setState", 0)
    /\ UNCHANGED <<apiKey, deepSeekKey, call, calls, probe, db>>

\* onClose of ShadowingView, line 293
CloseShadowing ==
    /\ app.appState = "SHADOWING"
    /\ app.transcription # None
    /\ ~app.isHistoryOpen
    /\ app' = Ran([app EXCEPT !.appState = "READY"], "setState", 0)
    /\ UNCHANGED <<apiKey, deepSeekKey, call, calls, probe, db>>

NextApp ==
    \/ SelectFile
    \/ \E k \in 1..Len(app.handlers) : TranscribeStep(k)
    \/ \E k \in 1..Len(app.handlers) : SaveResolves(k)
    \/ \E k \in 1..Len(app.handlers) : SaveRejects(k)
    \/ OpenHistory
    \/ CloseHistory
    \/ LoadHistory
    \/ Reset
    \/ Favorite
    \/ EnterShadowing
    \/ CloseShadowing

SpecApp == InitApp /\ [][NextApp]_vars

-----------------------------------------------------------------------------
\* C21: when transcribeAudio has resolved and historyDb.save rejects, the
\* handler ends as it does when the save succeeds: the app is READY, the
\* transcription is the result of transcribeAudio for the file of the
\* invocation, and errorDetails and audioFile are as they were, so that the
\* rejection of the save never puts the app in ERROR.
C21_SaveFailureIgnored ==
    [][\A k \in DOMAIN app.handlers :
          (/\ app.handlers[k].pc = "save"
           /\ app'.last.op = "saveFailed"
           /\ app'.last.arg = k)
              => /\ app'.appState = "READY"
                 /\ app'.transcription =
                        Some([of |-> app.handlers[k].file,
                              value |-> app.handlers[k].result])
                 /\ app'.errorDetails = app.errorDetails
                 /\ app'.audioFile = app.audioFile]_vars

C21_Witness ==
    /\ app.fn = "App"
    /\ app.last.op = "saveFailed"
    /\ app.appState = "READY"
    /\ app.transcription # None
    /\ app.errorDetails = None

-----------------------------------------------------------------------------
\* the response shown
Shown == app.transcription[1].value

\* a segment counts as a favourite when its flag is there and true
Favoured(segment) == "isFavorite" \in DOMAIN segment /\ segment.isFavorite

\* segment without its flag
Unflagged(segment) == [f \in DOMAIN segment \ {"isFavorite"} |-> segment[f]]

\* a step of handleToggleFavorite changes, of the whole state of App, only
\* the flag of the segment at its index, which it inverts
ToggleFrame ==
    (app' # app /\ app'.last.op = "handleToggleFavorite") =>
        LET index == app'.last.arg
            before == Shown
            after == app'.transcription[1].value
        IN  /\ [app' EXCEPT !.transcription = app.transcription, !.last = app.last] = app
            /\ app'.transcription[1].of = app.transcription[1].of
            /\ DOMAIN after = DOMAIN before
            /\ \A f \in DOMAIN before \ {"segments"} : after[f] = before[f]
            /\ Len(after.segments) = Len(before.segments)
            /\ \A j \in 1..Len(before.segments) :
                  j # index => after.segments[j] = before.segments[j]
            /\ Unflagged(after.segments[index]) = Unflagged(before.segments[index])
            /\ Favoured(after.segments[index]) = ~Favoured(before.segments[index])

\* C22 as stated: a toggle changes only the flag of its segment, and two
\* toggles of one index give back the transcription they started from.
C22_Original ==
    /\ [][ToggleFrame]_vars
    /\ [](app.transcription # None =>
            \A index \in 1..Len(Shown.segments) :
                ToggleFavorite(ToggleFavorite(Shown, index), index) = Shown)

\* C22: a toggle changes only the flag of its segment, and two toggles of
\* one index give back the transcription they started from when the segment
\* had a flag; a segment that had none, as every segment transcribeAudio
\* returns, gets the flag false, and nothing else differs.
C22_ToggleFrame ==
    /\ [][ToggleFrame]_vars
    /\ [](app.transcription # None =>
            \A index \in 1..Len(Shown.segments) :
                LET twice == ToggleFavorite(ToggleFavorite(Shown, index), index)
                    segment == Shown.segments[index]
                IN  /\ "isFavorite" \in DOMAIN segment => twice = Shown
                    /\ "isFavorite" \notin DOMAIN segment =>
                          /\ twice # Shown
                          /\ twice = [Shown EXCEPT !.segments[index] =
                                         [isFavorite |-> FALSE] @@ segment])

\* two toggles of the second segment have run, the first segment has no flag
C22_Witness ==
    /\ app.fn = "App"
    /\ app.last.op = "handleToggleFavorite"
    /\ app.transcription # None
    /\ Len(Shown.segments) = 2
    /\ "isFavorite" \notin DOMAIN Shown.segments[1]
    /\ "isFavorite" \in DOMAIN Shown.segments[2]
    /\ ~Shown.segments[2].isFavorite

-----------------------------------------------------------------------------
\* C23: DeepSeek is requested only in getWordDefinition, only once withRetry
\* has rejected, and after every attempt and wait of withRetry; when the
\* error withRetry rejected with is retryable, all DefaultRetries attempts
\* and the DefaultRetries - 1 waits between them came first.  No request
\* goes to DeepSeek in a call whose withRetry resolved or is still pending.
C23_FallbackAfterPrimary ==
    /\ NumEv("fetch") > 0 =>
          /\ call.task = "getWordDefinition"
          /\ call.wrDone = "rejected"
          /\ call.wrError # None
          /\ \A p \in 1..Len(call.log) :
                call.log[p].ev = "fetch" =>
                    \A q \in 1..Len(call.log) : IsWithRetryEvent(call.log[q]) => q < p
          /\ RetryablePattern(call.wrError[1]) =>
                /\ NumEv("fn") = DefaultRetries
                /\ NumEv("setTimeout") = DefaultRetries - 1
    /\ call.wrDone # "rejected" => (NumEv("fetch") = 0 /\ call.pc # "fetch")

\* the request to DeepSeek is in flight after three attempts that failed
\* with retryable errors and the two waits between them
C23_Witness ==
    /\ call.pc = "fetch"
    /\ RetryablePattern(call.wrError[1])
    /\ NumEv("fn") = 3
    /\ NumEv("setTimeout") = 2
    /\ call.log[Len(call.log)] = LogFetch

-----------------------------------------------------------------------------
(* One task call whose awaited promises settle: FileReader fires load or   *)
(* error, every request to Gemini and to DeepSeek resolves or rejects, and *)
(* the timer of a backoff wait fires.  Nothing obliges a caller to start a *)
(* task.  The steps are those of Spec, with the answers of Gemini taken    *)
(* from FewGeminiMessages and FewGeminiReplies.                            *)

\* the request to Gemini rejects
RequestFails ==
    /\ call.pc = "generateContent"
    /\ call' \in GeminiRejectsWith(call, deepSeekKey, FewGeminiMessages)
    /\ UNCHANGED <<apiKey, deepSeekKey, calls, probe, db, app>>

\* the request to Gemini resolves
RequestAnswered ==
    /\ call.pc = "generateContent"
    /\ call' \in GeminiResolvesWith(call, deepSeekKey, FewGeminiReplies)
    /\ UNCHANGED <<apiKey, deepSeekKey, calls, probe, db, app>>

NextSettling ==
    \/ \E task \in Tasks : Call(task)
    \/ FileRead
    \/ FileReadFails
    \/ RequestFails
    \/ RequestAnswered
    \/ BackoffElapses
    \/ DeepSeekRejects
    \/ DeepSeekNotOk
    \/ DeepSeekOk

SpecSettling ==
    /\ Init /\ [][NextSettling]_vars
    /\ WF_vars(FileReadFails \/ FileRead)
    /\ WF_vars(RequestFails \/ RequestAnswered)
    /\ WF_vars(BackoffElapses)
    /\ WF_vars(DeepSeekRejects \/ DeepSeekNotOk \/ DeepSeekOk)

\* C24: a task call that has started ends in a result or an error, and at no
\* point has it made more than DefaultRetries attempts, more than
\* DefaultRetries - 1 backoff waits, or more than one request to DeepSeek
\* (none outside getWordDefinition).
C24_Terminates ==
    /\ [](/\ NumEv("fn") <= DefaultRetries
          /\ NumEv("setTimeout") <= DefaultRetries - 1
          /\ NumEv("fetch") <= IF call.task = "getWordDefinition" THEN 1 ELSE 0)
    /\ (call.task # "none") ~> Finished

\* a definition ended after three attempts, two waits and a DeepSeek request
C24_Witness ==
    /\ call.task = "getWordDefinition"
    /\ Finished
    /\ NumEv("fn") = 3
    /\ NumEv("setTimeout") = 2
    /\ NumEv("fetch") = 1

-----------------------------------------------------------------------------
\* C25: when the catch block of handleFileSelected has classified the error
\* of transcribeAudio as SERVICE_UNAVAILABLE, whose screen says that the
\* request was retried 3 times, withRetry made DefaultRetries attempts in
\* that call.
C25_RetriedThreeTimes ==
    (/\ app.last.op = "catch"
     /\ app.appState = "ERROR"
     /\ app.errorDetails = Some("SERVICE_UNAVAILABLE"))
        => NumEvOf(app.last.call, "fn") = DefaultRetries

\* the screen is shown after three attempts
C25_Witness ==
    /\ app.fn = "App"
    /\ app.last.op = "catch"
    /\ app.appState = "ERROR"
    /\ app.errorDetails = Some("SERVICE_UNAVAILABLE")
    /\ NumEvOf(app.last.call, "fn") = 3
    /\ NumEvOf(app.last.call, "setTimeout") = 2

-----------------------------------------------------------------------------
\* C26: in every reachable state of App, READY has an audio file and a
\* transcription, and IDLE has neither.
C26_ReadyAndIdle ==
    /\ app.appState = "READY" => (app.audioFile # None /\ app.transcription # None)
    /\ app.appState = "IDLE" => (app.audioFile = None /\ app.transcription = None)

-----------------------------------------------------------------------------
\* C27: whenever App holds both an audio file and a transcription, the
\* transcription was made from the recording of that audio file.
C27_SameRecording ==
    (app.audioFile # None /\ app.transcription # None) =>
        app.transcription[1].of = app.audioFile[1].name

-----------------------------------------------------------------------------
\* C28: every segment mergeShortSegments returns, except possibly the last,
\* has at least 4 words or lasts at least 2.0 seconds; the last segment of
\* the argument goes into the last segment returned, which ends where it
\* ends and whose text ends with its text, and into no earlier one.
C28_OnlyLastShort ==
    (Merged /\ Len(probe.arg) > 0) =>
        LET out == probe.out[1]
            final == probe.arg[Len(probe.arg)]
        IN  /\ \A k \in 1..(Len(out) - 1) : OverThresholds(out[k])
            /\ Len(out) > 0
            /\ out[Len(out)].end = final.end
            /\ endsWith(out[Len(out)].text, final.text)
            /\ OverThresholds(probe.arg[1]) => out[1] = probe.arg[1]

\* a short segment was returned last, on its own, after a long one
C28_Witness ==
    /\ Merged
    /\ Len(probe.arg) = 2
    /\ Len(probe.out[1]) = 2
    /\ probe.out[1][2] = probe.arg[2]
    /\ ~OverThresholds(probe.arg[2])
    /\ WordCount(probe.arg[2].text) = SplitCount(probe.arg[2].text)

-----------------------------------------------------------------------------
\* C29: what mergeShortSegments returns, it returns unchanged when given it
\* as its argument: the same segments with the same fields.
C29_Idempotent ==
    Merged => mergeShortSegments(probe.out[1]) = probe.out[1]

\* segments were joined, and the result was handed to a second pass, which
\* returned it as it was
C29_Witness ==
    /\ Merged
    /\ Len(probe.arg) = 2
    /\ probe.arg[1].text = "Uh  so it is"
    /\ probe.out[1] = probe.arg

-----------------------------------------------------------------------------
\* the values of a field of the first n segments, joined with single spaces
RECURSIVE JoinField(_, _, _)
JoinField(segments, field, n) ==
    IF n = 0 THEN ""
    ELSE IF n = 1 THEN segments[1][field]
    ELSE JoinField(segments, field, n - 1) \o " " \o segments[n][field]

\* C30: for a non-empty argument mergeShortSegments returns at least one
\* segment and at most as many as it was given; the first returned segment
\* starts where the first given one starts, the last returned one ends where
\* the last given one ends, and the texts, as the translations, joined with
\* single spaces are those of the argument joined with single spaces.
C30_NothingLost ==
    (Merged /\ Len(probe.arg) > 0) =>
        LET out == probe.out[1]
        IN  /\ Len(out) > 0
            /\ Len(out) <= Len(probe.arg)
            /\ out[1].start = probe.arg[1].start
            /\ out[Len(out)].end = probe.arg[Len(probe.arg)].end
            /\ JoinField(out, "text", Len(out)) =
                   JoinField(probe.arg, "text", Len(probe.arg))
            /\ JoinField(out, "translation", Len(out)) =
                   JoinField(probe.arg, "translation", Len(probe.arg))

\* three segments were given and the first two were joined
C30_Witness ==
    /\ Merged
    /\ Len(probe.arg) = 3
    /\ Len(probe.out[1]) = 2
    /\ probe.out[1][1].text = probe.arg[1].text \o " " \o probe.arg[2].text
    /\ probe.out[1][2] = probe.arg[3]

====
